---- MODULE Spec2Model ----
(***************************************************************************)
(* A model of the PIPELINK SDK request pipeline: configuration             *)
(* normalisation (config.ts), the client facade (client.ts), the HTTP      *)
(* transport with its timeout race (utils/http.ts, utils/timeout.ts), the  *)
(* error classes (errors/sdk-error.ts) and the four operations             *)
(* signMessage, verifySignature, getWalletBalance and createPipeline.      *)
(*                                                                         *)
(* JavaScript values are tagged records, JavaScript strings and JSON text  *)
(* are sequences of characters, error messages are TLA+ strings, and JSON  *)
(* numbers are fixed-point integers counting tenths (105 stands for 10.5). *)
(* Optional properties of a configuration object are fields that may be    *)
(* missing from the record's DOMAIN.                                       *)
(***************************************************************************)
EXTENDS Integers, Sequences, FiniteSets, TLC

VARIABLES
    client,      \* the facade's private config (client.ts), or NoClient
    ctorError,   \* the error thrown by the last failed construction, or NoError
    pc,          \* position of the call in flight
    ctorArg,     \* the partial config the constructor was called with, or NoArg
    argNow,      \* the object passed to the constructor, as it is now
    returned,    \* the objects getConfig returned, as they are now
    signer,      \* the promise returned by the wallet's signMessage
    flights,     \* the calls in flight at once against one configuration
    call,        \* the operation called, its arguments and its configuration
    fetchLog,    \* the (url, init) pairs the transport function was invoked with
    signLog,     \* the byte sequences the wallet's signMessage was invoked with
    transport,   \* the promise returned by the transport function
    timer,       \* the setTimeout started by createTimeoutPromise
    race,        \* which side of Promise.race settled first
    response,    \* the Response the transport resolved with, or NoResponse
    reader,      \* the promise returned by response.json() / response.text()
    http,        \* the promise returned by httpRequest (by post / get)
    settled,     \* state of the promise returned to the caller
    value,       \* its fulfilment value
    error        \* its rejection reason

\* the facade: its private config, and the objects that went in and came out
facade == <<client, ctorError, ctorArg, argNow, returned>>

vars == <<client, ctorError, ctorArg, argNow, returned, flights, pc, call,
          fetchLog, signLog, signer, transport, timer, race, response, reader, http,
          settled, value, error>>

(***************************************************************************)
(* Bounds of the model.                                                    *)
(***************************************************************************)
\* largest number of trailing "/" on a generated base URL
MaxSlashes == 2
\* largest length of a generated wallet address
MaxAddrLen == 2
\* largest number of getConfig calls on a facade
MaxCopies == 2
\* number of calls in flight at once
MaxFlights == 2

(***************************************************************************)
(* JavaScript values.                                                      *)
(***************************************************************************)
Undef == [t |-> "undefined"]
Null == [t |-> "null"]
S(cs) == [t |-> "string", v |-> cs]
N(n) == [t |-> "number", v |-> n]
B(b) == [t |-> "boolean", v |-> b]
A(vs) == [t |-> "array", v |-> vs]
O(kvs) == [t |-> "object", v |-> kvs]
\* a Uint8Array
Bytes(bs) == [t |-> "bytes", v |-> bs]
\* a function object, one whose call returns x, and one whose call throws e
Fn == [t |-> "function"]
Returns(x) == [t |-> "function", returns |-> x]
Throwing(e) == [t |-> "function", throws |-> e]

\* typeof x
TypeOf(x) ==
    IF x.t \in {"null", "array", "object", "bytes"} THEN "object" ELSE x.t

\* ToBoolean(x), as used by !x and x || y
Truthy(x) ==
    CASE x.t \in {"undefined", "null"} -> FALSE
      [] x.t = "string" -> x.v # <<>>
      [] x.t = "number" -> x.v # 0
      [] x.t = "boolean" -> x.v
      [] OTHER -> TRUE

\* Array.isArray(x)
IsArray(x) == x.t = "array"

\* the characters of a text
Chars(s) == [i \in 1..Len(s) |-> SubSeq(s, i, i)]

DecimalDigits == <<"0", "1", "2", "3", "4", "5", "6", "7", "8", "9">>
IsDigit(c) == \E d \in 1..10 : DecimalDigits[d] = c

\* the numeric order of two canonical decimal texts: the shorter is the
\* smaller, and of two of one length the one with the smaller digit at the
\* first place where they differ
IndexBelow(j, k) ==
    \/ Len(j) < Len(k)
    \/ /\ Len(j) = Len(k)
       /\ \E i \in 1..Len(j) :
             /\ SubSeq(j, 1, i - 1) = SubSeq(k, 1, i - 1)
             /\ \E d, e \in 1..10 :
                    /\ DecimalDigits[d] = SubSeq(j, i, i)
                    /\ DecimalDigits[e] = SubSeq(k, i, i)
                    /\ d < e

\* the property name is an array index: the canonical decimal text of an
\* integer from 0 to 2^32 - 2
IsArrayIndex(k) ==
    /\ Len(k) >= 1
    /\ Len(k) <= 10
    /\ \A i \in 1..Len(k) : IsDigit(SubSeq(k, i, i))
    /\ (SubSeq(k, 1, 1) = "0" => Len(k) = 1)
    /\ (Len(k) = 10 => ~IndexBelow("4294967294", k))

\* the own properties of an object in the order the runtime walks them: those
\* named by an array index first, in ascending order, then the others in the
\* order they were created (kvs holds the properties in creation order)
OwnProps(kvs) ==
    LET all == 1..Len(kvs)
        indexed == { i \in all : IsArrayIndex(kvs[i][1]) }
        place(i) ==
            IF i \in indexed
            THEN 1 + Cardinality({ j \in indexed :
                                     IndexBelow(kvs[j][1], kvs[i][1]) })
            ELSE Cardinality(indexed)
                     + Cardinality({ j \in all \ indexed : j <= i })
    IN  [p \in all |-> kvs[CHOOSE i \in all : place(i) = p]]

\* Object.keys(x)
Keys(kvs) == [i \in 1..Len(kvs) |-> OwnProps(kvs)[i][1]]

\* x.k : property access on a value that is neither null nor undefined
Get(x, k) ==
    IF x.t = "object" /\ \E i \in 1..Len(x.v) : x.v[i][1] = k
    THEN x.v[CHOOSE i \in 1..Len(x.v) : x.v[i][1] = k][2]
    ELSE Undef

\* x.length of a string or an array
Length(x) == Len(x.v)

(***************************************************************************)
(* Strings.                                                                *)
(***************************************************************************)
\* the characters of a JavaScript string joined into one text
RECURSIVE Text(_)
Text(cs) == IF cs = <<>> THEN "" ELSE cs[1] \o Text(Tail(cs))

\* String.prototype.startsWith
StartsWith(s, p) == Len(s) >= Len(p) /\ SubSeq(s, 1, Len(p)) = p

\* String.prototype.includes
Includes(s, p) ==
    \E i \in 1..(Len(s) - Len(p) + 1) : SubSeq(s, i, i + Len(p) - 1) = p

\* mutant: every trailing "/" is removed, as by /\/+$/
RECURSIVE StripAllTrailingSlashes(_)
StripAllTrailingSlashes(s) ==
    IF Len(s) > 0 /\ s[Len(s)] = "/"
    THEN StripAllTrailingSlashes(SubSeq(s, 1, Len(s) - 1)) ELSE s

\* s.replace(/\/$/, ""): the pattern matches one "/" at the end of the input
StripTrailingSlash(s) ==
    IF Len(s) > 0 /\ s[Len(s)] = "/" THEN SubSeq(s, 1, Len(s) - 1) ELSE s

\* the printable ASCII characters, from code 32 to code 126 (the grave accent,
\* code 96, is written "U+0060")
Ascii ==
    <<" ", "!", "\"", "#", "$", "%", "&", "'", "(", ")", "*", "+", ",", "-",
      ".", "/", "0", "1", "2", "3", "4", "5", "6", "7", "8", "9", ":", ";",
      "<", "=", ">", "?", "@", "A", "B", "C", "D", "E", "F", "G", "H", "I",
      "J", "K", "L", "M", "N", "O", "P", "Q", "R", "S", "T", "U", "V", "W",
      "X", "Y", "Z", "[", "\\", "]", "^", "_", "U+0060", "a", "b", "c", "d", "e",
      "f", "g", "h", "i", "j", "k", "l", "m", "n", "o", "p", "q", "r", "s",
      "t", "u", "v", "w", "x", "y", "z", "{", "|", "}", "~">>

HexDigits ==
    <<"0", "1", "2", "3", "4", "5", "6", "7", "8", "9", "A", "B", "C", "D",
      "E", "F">>

LowerHexDigits ==
    <<"0", "1", "2", "3", "4", "5", "6", "7", "8", "9", "a", "b", "c", "d",
      "e", "f">>

HexValue(c) == (CHOOSE i \in 1..16 : HexDigits[i] = c) - 1

\* the UTF-16 code unit of a character.  A printable ASCII character is
\* written as itself, every other code unit as "U+" and its four hexadecimal
\* digits: "U+00E9" (e acute), "U+D800" (a high surrogate), "U+FEFF" (the
\* byte order mark), "U+FFFD" (the replacement character)
CharCode(c) ==
    IF Len(c) = 1 THEN 31 + CHOOSE i \in 1..Len(Ascii) : Ascii[i] = c
    ELSE HexValue(SubSeq(c, 3, 3)) * 4096 + HexValue(SubSeq(c, 4, 4)) * 256
             + HexValue(SubSeq(c, 5, 5)) * 16 + HexValue(SubSeq(c, 6, 6))

\* String.fromCharCode
CharOf(n) ==
    IF n >= 32 /\ n <= 126 THEN Ascii[n - 31]
    ELSE "U+" \o HexDigits[(n \div 4096) + 1] \o HexDigits[((n \div 256) % 16) + 1]
             \o HexDigits[((n \div 16) % 16) + 1] \o HexDigits[(n % 16) + 1]

\* a surrogate code unit: a high one is from D800 to DBFF, a low one from
\* DC00 to DFFF
IsSurrogate(n) == n >= 55296 /\ n <= 57343

\* the code points of a string: a high surrogate followed by a low one is one
\* supplementary code point, every other code unit is its own code point (a
\* lone surrogate included)
RECURSIVE CodePoints(_)
CodePoints(cs) ==
    IF cs = <<>> THEN <<>>
    ELSE IF Len(cs) >= 2 /\ Len(cs[1]) # 1 /\ Len(cs[2]) # 1
            /\ CharCode(cs[1]) >= 55296 /\ CharCode(cs[1]) <= 56319
            /\ CharCode(cs[2]) >= 56320 /\ CharCode(cs[2]) <= 57343
    THEN <<65536 + (CharCode(cs[1]) - 55296) * 1024 + (CharCode(cs[2]) - 56320)>>
             \o CodePoints(SubSeq(cs, 3, Len(cs)))
    ELSE <<CharCode(cs[1])>> \o CodePoints(Tail(cs))

\* the UTF-16 code units of a sequence of code points
RECURSIVE FromCodePoints(_)
FromCodePoints(cps) ==
    IF cps = <<>> THEN <<>>
    ELSE (IF cps[1] >= 65536
          THEN <<CharOf(55296 + ((cps[1] - 65536) \div 1024)),
                 CharOf(56320 + ((cps[1] - 65536) % 1024))>>
          ELSE <<CharOf(cps[1])>>)
             \o FromCodePoints(Tail(cps))

\* the UTF-8 bytes of a code point
Utf8(cp) ==
    IF cp < 128 THEN <<cp>>
    ELSE IF cp < 2048 THEN <<192 + (cp \div 64), 128 + (cp % 64)>>
    ELSE IF cp < 65536
    THEN <<224 + (cp \div 4096), 128 + ((cp \div 64) % 64), 128 + (cp % 64)>>
    ELSE <<240 + (cp \div 262144), 128 + ((cp \div 4096) % 64),
           128 + ((cp \div 64) % 64), 128 + (cp % 64)>>

RECURSIVE Utf8All(_)
Utf8All(cps) ==
    IF cps = <<>> THEN <<>>
    ELSE Utf8(IF IsSurrogate(cps[1]) THEN 65533 ELSE cps[1]) \o Utf8All(Tail(cps))

\* new TextEncoder().encode(s): a lone surrogate is encoded as U+FFFD
TextEncode(cs) == Utf8All(CodePoints(cs))

\* the UTF-8 decoder of the Encoding standard, replacement mode: the code
\* points of the bytes left, cp being the code point under construction,
\* needed the number of bytes it still lacks and lower..upper the range of
\* the next byte; every maximal ill-formed part becomes U+FFFD, and the byte
\* that ends an ill-formed part is decoded again
RECURSIVE Utf8Scan(_, _, _, _, _)
Utf8Scan(bs, cp, needed, lower, upper) ==
    IF bs = <<>> THEN (IF needed # 0 THEN <<65533>> ELSE <<>>)
    ELSE LET b == bs[1]
             rest == Tail(bs)
         IN  IF needed = 0
             THEN IF b <= 127 THEN <<b>> \o Utf8Scan(rest, 0, 0, 128, 191)
                  ELSE IF b >= 194 /\ b <= 223
                  THEN Utf8Scan(rest, b % 32, 1, 128, 191)
                  ELSE IF b >= 224 /\ b <= 239
                  THEN Utf8Scan(rest, b % 16, 2,
                                IF b = 224 THEN 160 ELSE 128,
                                IF b = 237 THEN 159 ELSE 191)
                  ELSE IF b >= 240 /\ b <= 244
                  THEN Utf8Scan(rest, b % 8, 3,
                                IF b = 240 THEN 144 ELSE 128,
                                IF b = 244 THEN 143 ELSE 191)
                  ELSE <<65533>> \o Utf8Scan(rest, 0, 0, 128, 191)
             ELSE IF b < lower \/ b > upper
             THEN <<65533>> \o Utf8Scan(bs, 0, 0, 128, 191)
             ELSE IF needed = 1
             THEN <<cp * 64 + (b % 64)>> \o Utf8Scan(rest, 0, 0, 128, 191)
             ELSE Utf8Scan(rest, cp * 64 + (b % 64), needed - 1, 128, 191)

Utf8Decode(bs) == FromCodePoints(Utf8Scan(bs, 0, 0, 128, 191))

\* new TextDecoder().decode(bytes): UTF-8, not fatal, a leading byte order
\* mark is dropped
TextDecode(bs) ==
    IF Len(bs) >= 3 /\ SubSeq(bs, 1, 3) = <<239, 187, 191>>
    THEN Utf8Decode(SubSeq(bs, 4, Len(bs)))
    ELSE Utf8Decode(bs)

\* the characters encodeURIComponent leaves alone, besides letters and digits
UriMarks == {"-", "_", ".", "!", "~", "*", "'", "(", ")"}

IsAlnum(c) ==
    LET n == CharCode(c)
    IN  (n >= 48 /\ n <= 57) \/ (n >= 65 /\ n <= 90) \/ (n >= 97 /\ n <= 122)

RECURSIVE PercentBytes(_)
PercentBytes(bs) ==
    IF bs = <<>> THEN <<>>
    ELSE <<"%", HexDigits[(bs[1] \div 16) + 1], HexDigits[(bs[1] % 16) + 1]>>
             \o PercentBytes(Tail(bs))

\* the escaping of encodeURIComponent, code point by code point
RECURSIVE EncodeChars(_)
EncodeChars(cps) ==
    IF cps = <<>> THEN <<>>
    ELSE (IF cps[1] < 128
             /\ (IsAlnum(CharOf(cps[1])) \/ CharOf(cps[1]) \in UriMarks)
          THEN <<CharOf(cps[1])>>
          ELSE PercentBytes(Utf8(cps[1])))
             \o EncodeChars(Tail(cps))

\* the string holds a surrogate that is not half of a pair
HasLoneSurrogate(cs) ==
    \E i \in 1..Len(CodePoints(cs)) : IsSurrogate(CodePoints(cs)[i])

\* encodeURIComponent(s): the escaped string, or the URIError it throws for
\* a string with a lone surrogate
EncodeURIComponent(cs) ==
    IF HasLoneSurrogate(cs)
    THEN [throw |-> [name |-> "URIError", message |-> "URI malformed"]]
    ELSE [value |-> EncodeChars(CodePoints(cs))]

(***************************************************************************)
(* JSON.                                                                   *)
(***************************************************************************)
RECURSIVE Digits(_)
Digits(n) ==
    IF n < 10 THEN <<Ascii[17 + n]>>
    ELSE Digits(n \div 10) \o <<Ascii[17 + (n % 10)]>>

\* the text of a number, which the model counts in tenths
NumberText(n) ==
    LET m == IF n < 0 THEN -n ELSE n
    IN  (IF n < 0 THEN <<"-">> ELSE <<>>)
            \o Digits(m \div 10)
            \o (IF m % 10 = 0 THEN <<>> ELSE <<".">> \o Digits(m % 10))

\* the escape JSON.stringify writes for a code point of a string: the quote
\* and the backslash after a backslash, the control characters by their short
\* name or as \u00xx, a lone surrogate as \udxxx, any other as it is
QuoteCodePoint(cp) ==
    CASE cp = 34 -> <<"\\", "\"">>
      [] cp = 92 -> <<"\\", "\\">>
      [] cp = 8 -> <<"\\", "b">>
      [] cp = 9 -> <<"\\", "t">>
      [] cp = 10 -> <<"\\", "n">>
      [] cp = 12 -> <<"\\", "f">>
      [] cp = 13 -> <<"\\", "r">>
      [] cp < 32 \/ IsSurrogate(cp) ->
            <<"\\", "u", LowerHexDigits[(cp \div 4096) + 1],
              LowerHexDigits[((cp \div 256) % 16) + 1],
              LowerHexDigits[((cp \div 16) % 16) + 1],
              LowerHexDigits[(cp % 16) + 1]>>
      [] OTHER -> FromCodePoints(<<cp>>)

\* the text of a string between the quotes JSON.stringify writes: a character
\* written as itself is printable ASCII, and a high surrogate followed by a
\* low one is a pair, written as it is
RECURSIVE Quote(_)
Quote(cs) ==
    IF cs = <<>> THEN <<>>
    ELSE IF Len(cs[1]) = 1
    THEN (IF cs[1] \in {"\"", "\\"} THEN <<"\\", cs[1]>> ELSE <<cs[1]>>)
             \o Quote(Tail(cs))
    ELSE IF Len(cs) >= 2 /\ Len(CodePoints(<<cs[1], cs[2]>>)) = 1
    THEN <<cs[1], cs[2]>> \o Quote(SubSeq(cs, 3, Len(cs)))
    ELSE QuoteCodePoint(CharCode(cs[1])) \o Quote(Tail(cs))

\* JSON.stringify(x) for x that is neither undefined nor a function: a
\* property whose value is undefined or a function is left out, such an
\* element of an array is written null
RECURSIVE JSONStringify(_), StringifyItems(_), StringifyProps(_, _)
JSONStringify(x) ==
    CASE x.t = "null" -> <<"n", "u", "l", "l">>
      [] x.t = "boolean" ->
            IF x.v THEN <<"t", "r", "u", "e">> ELSE <<"f", "a", "l", "s", "e">>
      [] x.t = "number" -> NumberText(x.v)
      [] x.t = "string" -> <<"\"">> \o Quote(x.v) \o <<"\"">>
      [] x.t = "array" -> <<"[">> \o StringifyItems(x.v) \o <<"]">>
      [] x.t = "object" ->
            <<"{">> \o StringifyProps(OwnProps(x.v), TRUE) \o <<"}">>

StringifyItems(vs) ==
    IF vs = <<>> THEN <<>>
    ELSE (IF vs[1].t \in {"undefined", "function"} THEN <<"n", "u", "l", "l">>
          ELSE JSONStringify(vs[1]))
             \o (IF Len(vs) > 1 THEN <<",">> ELSE <<>>)
             \o StringifyItems(Tail(vs))

\* the properties of an object in the order given, each name quoted as a
\* string is
StringifyProps(kvs, first) ==
    IF kvs = <<>> THEN <<>>
    ELSE IF kvs[1][2].t \in {"undefined", "function"}
    THEN StringifyProps(Tail(kvs), first)
    ELSE (IF first THEN <<>> ELSE <<",">>)
             \o <<"\"">> \o Quote(Chars(kvs[1][1])) \o <<"\"", ":">>
             \o JSONStringify(kvs[1][2])
             \o StringifyProps(Tail(kvs), FALSE)

(***************************************************************************)
(* Error classes (errors/sdk-error.ts) and the built-in errors the code    *)
(* meets.  Every error carries the name of its class, which is what an     *)
(* instanceof test reads.                                                  *)
(***************************************************************************)
ValidationError(msg) ==
    [name |-> "ValidationError", code |-> "VALIDATION_ERROR", message |-> msg]

HTTPError(msg, status, statusText, data) ==
    [name |-> "HTTPError", code |-> "HTTP_ERROR", message |-> msg,
     status |-> status, statusText |-> statusText, data |-> data]

NetworkError(msg, originalError) ==
    [name |-> "NetworkError", code |-> "NETWORK_ERROR", message |-> msg,
     originalError |-> originalError]

TimeoutError(msg, timeout) ==
    [name |-> "TimeoutError", code |-> "TIMEOUT_ERROR", message |-> msg,
     timeout |-> timeout]

\* the built-in Error, TypeError and SyntaxError
PlainError(msg) == [name |-> "Error", message |-> msg]
TypeError(msg) == [name |-> "TypeError", message |-> msg]
SyntaxError(msg) == [name |-> "SyntaxError", message |-> msg]

NoError == [name |-> "none"]
NoValue == [t |-> "none"]

(***************************************************************************)
(* Configuration (config.ts).                                              *)
(***************************************************************************)
DEFAULT_TIMEOUT == 30000
DEFAULT_NETWORK == "mainnet-beta"

HttpPrefix == <<"h", "t", "t", "p", ":", "/", "/">>
HttpsPrefix == <<"h", "t", "t", "p", "s", ":", "/", "/">>

\* config.k || d for an optional numeric or string property
OrDefault(config, k, d, falsy) ==
    IF k \in DOMAIN config /\ config[k] # falsy THEN config[k] ELSE d

\* mutant: the scheme of a non-empty baseUrl is not checked
normalizeConfig_NoPrefixCheck(config) ==
    IF "baseUrl" \notin DOMAIN config \/ config.baseUrl = <<>>
    THEN [ok |-> FALSE, error |-> PlainError("baseUrl is required")]
    ELSE [ok |-> TRUE,
          config |-> [baseUrl |-> StripTrailingSlash(config.baseUrl),
                      network |-> OrDefault(config, "network", DEFAULT_NETWORK, ""),
                      timeout |-> OrDefault(config, "timeout", DEFAULT_TIMEOUT, 0),
                      fetch |-> IF "fetch" \in DOMAIN config
                                THEN config.fetch ELSE "undefined"]]

\* normalizeConfig(config): the configuration, or the Error it throws
normalizeConfig(config) ==
    IF "baseUrl" \notin DOMAIN config \/ config.baseUrl = <<>>
    THEN [ok |-> FALSE, error |-> PlainError("baseUrl is required")]
    ELSE IF ~StartsWith(config.baseUrl, HttpPrefix)
            /\ ~StartsWith(config.baseUrl, HttpsPrefix)
    THEN [ok |-> FALSE,
          error |-> PlainError("baseUrl must start with http:// or https://")]
    ELSE [ok |-> TRUE,
          config |-> [baseUrl |-> StripTrailingSlash(config.baseUrl),
                      network |-> OrDefault(config, "network", DEFAULT_NETWORK, ""),
                      timeout |-> OrDefault(config, "timeout", DEFAULT_TIMEOUT, 0),
                      fetch |-> IF "fetch" \in DOMAIN config
                                THEN config.fetch ELSE "undefined"]]

(***************************************************************************)
(* Transport (utils/http.ts, utils/timeout.ts).                            *)
(***************************************************************************)
JsonType ==
    <<"a", "p", "p", "l", "i", "c", "a", "t", "i", "o", "n", "/", "j", "s",
      "o", "n">>

DefaultHeaders == "Content-Type" :> "application/json"

\* the RequestInit httpRequest builds: the caller's headers over the default
\* one, and a body only if the body value is truthy
RequestInit(method, headers, body) ==
    LET init == [method |-> method, headers |-> headers @@ DefaultHeaders]
    IN  IF Truthy(body)
        THEN init @@ [body |-> JSONStringify(body)]
        ELSE init

\* customFetch || globalThis.fetch
FetchFn(customFetch) ==
    IF customFetch # "undefined" THEN customFetch ELSE "globalThis.fetch"

\* response.ok
Ok(status) == status >= 200 /\ status <= 299

\* the body reader httpRequest awaits for a response: "json", "text" or "none"
ReaderFor(resp) ==
    IF Truthy(resp.contentType) /\ Includes(resp.contentType.v, JsonType)
    THEN "json"
    ELSE IF Ok(resp.status) THEN "text" ELSE "none"

\* the universe of JSON values a response body may hold
SOL == <<"S", "O", "L">>
Balance(b, u) == O(<<<<"balance", b>>, <<"unit", u>>>>)
Pipeline(id, st) == O(<<<<"pipelineId", id>>, <<"status", st>>>>)
JSONValues ==
    { Null, N(105), S(<<"o", "k">>), A(<<N(10)>>), O(<<>>),
      O(<<<<"verified", B(TRUE)>>>>),
      O(<<<<"error", S(<<"N", "o">>)>>>>),
      Balance(N(105), S(SOL)), Balance(N(-10), S(SOL)),
      Balance(S(<<"x">>), S(SOL)), Balance(N(100), S(<<"s", "o", "l">>)),
      Pipeline(S(<<"p", "1">>), S(<<"u", "p">>)),
      O(<<<<"pipelineId", S(<<"p", "1">>)>>, <<"status", S(<<"u", "p">>)>>,
          <<"extra", N(10)>>>>),
      O(<<<<"status", S(<<"u", "p">>)>>>>),
      O(<<<<"pipelineId", S(<<"p", "1">>)>>>>),
      Pipeline(S(<<>>), S(<<"u", "p">>)), Pipeline(N(10), S(<<"u", "p">>)),
      Pipeline(S(<<"p", "1">>), S(<<>>)) }

\* the literal names of JSON: null, true and false
JsonLiterals ==
    { <<"n", "u", "l", "l">>, <<"t", "r", "u", "e">>,
      <<"f", "a", "l", "s", "e">> }

\* the characters a JSON text can begin with, other than those of a literal:
\* white space, and the first character of an object, an array, a string or
\* a number
JsonStarts ==
    {" ", "U+0009", "U+000A", "U+000D", "{", "[", "\"", "-", "0", "1", "2",
     "3", "4", "5", "6", "7", "8", "9"}

\* the message of the runtime's SyntaxError for the character of the text at
\* the position pos, counted from 0: a character that begins a number or a
\* string is named by its kind and position; any other by itself, followed
\* by the whole text when it is shorter than 21 characters, unless the text
\* is undefined, NaN or Infinity, which the message names alone
UnexpectedToken(pos, text) ==
    LET c == text[pos + 1]
        special == Text(text) \in {"undefined", "NaN", "Infinity"}
    IN  CASE IsDigit(c) \/ c = "-" ->
                "Unexpected number in JSON at position " \o ToString(pos)
          [] c = "\"" ->
                "Unexpected string in JSON at position " \o ToString(pos)
          [] ~(IsDigit(c) \/ c = "-" \/ c = "\"") /\ special ->
                "\"" \o Text(text) \o "\" is not valid JSON"
          [] ~(IsDigit(c) \/ c = "-" \/ c = "\"") /\ ~special
                /\ Len(text) <= 20 ->
                "Unexpected token '" \o c \o "', \"" \o Text(text)
                    \o "\" is not valid JSON"

\* the message of the SyntaxError of JSON.parse (Node 20) for a text that is
\* not JSON.  It is defined for the empty text, for a text that begins as a
\* literal and leaves it before the literal's end, and for a text whose first
\* character begins no JSON value; the model parses no other unparsable text
JSONParseMessage(text) ==
    CASE text = <<>> -> "Unexpected end of JSON input"
      [] text # <<>> /\ (\E l \in JsonLiterals : l[1] = text[1]) ->
            (LET lit == CHOOSE k \in JsonLiterals : k[1] = text[1]
                 both == IF Len(text) < Len(lit) THEN Len(text) ELSE Len(lit)
                 diff == { i \in 1..both : text[i] # lit[i] }
             IN  CASE diff # {} ->
                         UnexpectedToken(
                             (CHOOSE i \in diff : \A j \in diff : i <= j) - 1,
                             text)
                   [] diff = {} /\ Len(text) < Len(lit) ->
                         "Unexpected end of JSON input")
      [] text # <<>> /\ (\A l \in JsonLiterals : l[1] # text[1])
            /\ text[1] \notin JsonStarts ->
            UnexpectedToken(0, text)

\* the JSON text of every value of the universe
JSONTexts == [x \in JSONValues |-> JSONStringify(x)]

\* JSON.parse(text): the value whose text it is, or a SyntaxError
JSONParse(text) ==
    IF \E x \in JSONValues : JSONTexts[x] = text
    THEN [ok |-> TRUE, value |-> CHOOSE x \in JSONValues : JSONTexts[x] = text]
    ELSE [ok |-> FALSE, error |-> SyntaxError(JSONParseMessage(text))]

\* the catch block of httpRequest
HttpCatch(e) ==
    IF e.name = "HTTPError" \/ e.name = "NetworkError" THEN e
    ELSE IF e.name = "TypeError"
    THEN NetworkError("Network request failed: " \o e.message, e)
    ELSE e

\* mutant: the HTTPError is raised without the parsed body
HttpFinish_NoData(resp, data) ==
    IF ~Ok(resp.status)
    THEN [ok |-> FALSE,
          error |-> HTTPError("HTTP " \o ToString(resp.status) \o ": "
                                  \o resp.statusText,
                              resp.status, resp.statusText, Undef)]
    ELSE [ok |-> TRUE, value |-> data]

\* the end of httpRequest's try block, once the body is read: an HTTPError for
\* a response that is not ok, the data otherwise
HttpFinish(resp, data) ==
    IF ~Ok(resp.status)
    THEN [ok |-> FALSE,
          error |-> HTTPError("HTTP " \o ToString(resp.status) \o ": "
                                  \o resp.statusText,
                              resp.status, resp.statusText, data)]
    ELSE [ok |-> TRUE, value |-> data]

\* mutant: the TimeoutError reports the default deadline, not the one used
TimeoutRejection_Default(timeout) ==
    TimeoutError("Request timeout after " \o ToString(DEFAULT_TIMEOUT) \o "ms",
                 DEFAULT_TIMEOUT)

\* the rejection of createTimeoutPromise(timeout)
TimeoutRejection(timeout) ==
    TimeoutError("Request timeout after " \o ToString(timeout) \o "ms", timeout)

(***************************************************************************)
(* The operations.  Each operator below is the synchronous head of an      *)
(* operation, up to its first await: it yields the error the operation     *)
(* throws, or the request it hands to post / get.                          *)
(***************************************************************************)
Throw(e) == [throw |-> e]
Throws(r) == "throw" \in DOMAIN r

\* config.baseUrl, undefined read as the empty string (both are falsy)
BaseUrlOf(config) ==
    IF "baseUrl" \in DOMAIN config THEN config.baseUrl ELSE <<>>

\* config.timeout || 30000
TimeoutOf(config) == OrDefault(config, "timeout", 30000, 0)

\* config.fetch
FetchOf(config) == IF "fetch" \in DOMAIN config THEN config.fetch ELSE "undefined"

VerifyPath ==
    <<"/", "a", "p", "i", "/", "a", "u", "t", "h", "/", "v", "e", "r", "i",
      "f", "y">>
BalancePath ==
    <<"/", "a", "p", "i", "/", "w", "a", "l", "l", "e", "t", "/", "b", "a",
      "l", "a", "n", "c", "e", "?", "a", "d", "d", "r", "e", "s", "s", "=">>
CreatePath ==
    <<"/", "a", "p", "i", "/", "p", "i", "p", "e", "l", "i", "n", "e", "/",
      "c", "r", "e", "a", "t", "e">>

\* httpRequest(url, options), to its call of the transport function: the
\* properties it takes from options, with their defaults.  The type of
\* options requires timeout, a number
httpRequest(url, options) ==
    [url |-> url,
     method |-> IF "method" \in DOMAIN options THEN options.method ELSE "GET",
     headers |-> IF "headers" \in DOMAIN options THEN options.headers ELSE <<>>,
     body |-> IF "body" \in DOMAIN options THEN options.body ELSE Undef,
     timeout |-> options.timeout,
     fetch |-> IF "fetch" \in DOMAIN options THEN options.fetch
               ELSE "undefined"]

\* post(url, body, options): httpRequest(url, {...options, method: "POST", body})
Post(url, body, options) ==
    httpRequest(url, [method |-> "POST", body |-> body] @@ options)

\* get(url, options): httpRequest(url, {...options, method: "GET"})
HttpGet(url, options) == httpRequest(url, [method |-> "GET"] @@ options)


\* verifySignature(payload, config), to its call of post
verifySignature(payload, config) ==
    IF payload.t \in {"null", "undefined"}
    THEN Throw(TypeError("Cannot read properties of " \o payload.t
                             \o " (reading 'wallet')"))
    ELSE IF ~Truthy(Get(payload, "wallet"))
    THEN Throw(ValidationError("Wallet address is required"))
    ELSE IF ~Truthy(Get(payload, "message"))
    THEN Throw(ValidationError("Message is required"))
    ELSE IF ~IsArray(Get(payload, "signature"))
            \/ Length(Get(payload, "signature")) = 0
    THEN Throw(ValidationError("Valid signature array is required"))
    ELSE IF BaseUrlOf(config) = <<>>
    THEN Throw(ValidationError("SDK config is invalid"))
    ELSE Post(BaseUrlOf(config) \o VerifyPath, payload,
              [fetch |-> FetchOf(config), timeout |-> TimeoutOf(config)])

\* getWalletBalance(address, config), to its call of get
getWalletBalance(address, config) ==
    IF ~Truthy(address) \/ TypeOf(address) # "string"
    THEN Throw(ValidationError("Valid wallet address is required"))
    ELSE IF Length(address) = 0
    THEN Throw(ValidationError("Wallet address cannot be empty"))
    ELSE IF BaseUrlOf(config) = <<>>
    THEN Throw(ValidationError("SDK config is invalid"))
    ELSE LET encoded == EncodeURIComponent(address.v)
         IN  IF Throws(encoded) THEN Throw(encoded.throw)
             ELSE HttpGet(BaseUrlOf(config) \o BalancePath \o encoded.value,
                          [fetch |-> FetchOf(config),
                           timeout |-> TimeoutOf(config)])

\* createPipeline(pipelineConfig, config), to its call of post
createPipeline(pipelineConfig, config) ==
    IF ~Truthy(pipelineConfig) \/ TypeOf(pipelineConfig) # "object"
    THEN Throw(ValidationError("Pipeline configuration is required"))
    ELSE IF ~Truthy(Get(pipelineConfig, "name"))
            \/ TypeOf(Get(pipelineConfig, "name")) # "string"
    THEN Throw(ValidationError("Pipeline name is required"))
    ELSE IF Length(Get(pipelineConfig, "name")) = 0
    THEN Throw(ValidationError("Pipeline name cannot be empty"))
    ELSE IF BaseUrlOf(config) = <<>>
    THEN Throw(ValidationError("SDK config is invalid"))
    ELSE Post(BaseUrlOf(config) \o CreatePath, pipelineConfig,
              [fetch |-> FetchOf(config), timeout |-> TimeoutOf(config)])

\* mutant: the catch block rethrows what it caught
SignCatch_Rethrow(e) == e

\* the catch block of signMessage
SignCatch(e) ==
    IF e.name = "ValidationError" THEN e
    ELSE ValidationError("Failed to sign message: "
             \o (IF e.name = "NotAnError" THEN "Unknown error" ELSE e.message))

\* mutant: the length of the message is not checked
signMessage_NoEmptyCheck(walletAdapter, message) ==
    IF ~Truthy(walletAdapter)
    THEN Throw(ValidationError("Wallet adapter is required"))
    ELSE IF ~Truthy(Get(walletAdapter, "signMessage"))
    THEN Throw(ValidationError("Wallet adapter must support signMessage"))
    ELSE IF ~Truthy(Get(walletAdapter, "publicKey"))
    THEN Throw(ValidationError("Wallet adapter must have a publicKey"))
    ELSE IF message.t \in {"null", "undefined"}
    THEN Throw(TypeError("Cannot read properties of " \o message.t
                             \o " (reading 'length')"))
    ELSE IF Get(walletAdapter, "signMessage").t # "function"
    THEN Throw(SignCatch(TypeError(
                   "walletAdapter.signMessage is not a function")))
    ELSE [sign |-> IF TypeOf(message) = "string"
                   THEN Bytes(TextEncode(message.v)) ELSE message]

\* signMessage(walletAdapter, message), to its await of the wallet; calling a
\* signMessage that is no function throws inside the try block
signMessage(walletAdapter, message) ==
    IF ~Truthy(walletAdapter)
    THEN Throw(ValidationError("Wallet adapter is required"))
    ELSE IF ~Truthy(Get(walletAdapter, "signMessage"))
    THEN Throw(ValidationError("Wallet adapter must support signMessage"))
    ELSE IF ~Truthy(Get(walletAdapter, "publicKey"))
    THEN Throw(ValidationError("Wallet adapter must have a publicKey"))
    ELSE IF message.t \in {"null", "undefined"}
    THEN Throw(TypeError("Cannot read properties of " \o message.t
                             \o " (reading 'length')"))
    ELSE LET messageBytes ==
                 IF TypeOf(message) = "string"
                 THEN Bytes(TextEncode(message.v)) ELSE message
         IN  IF Length(messageBytes) = 0
             THEN Throw(ValidationError("Message cannot be empty"))
             ELSE IF Get(walletAdapter, "signMessage").t # "function"
             THEN Throw(SignCatch(TypeError(
                            "walletAdapter.signMessage is not a function")))
             ELSE [sign |-> messageBytes]

(***************************************************************************)
(* The tails of the operations: what each does with the value its await    *)
(* yields, and its catch block.                                            *)
(***************************************************************************)
Return(x) == [ok |-> TRUE, value |-> x]
Fail(e) == [ok |-> FALSE, error |-> e]

NotAnObject(resp) == ~Truthy(resp) \/ TypeOf(resp) # "object"

\* verifySignature after post
VerifyOutput(resp) ==
    IF NotAnObject(resp)
    THEN Fail(ValidationError("Invalid response from auth verify endpoint"))
    ELSE Return(resp)

\* mutant: the unit of the response is not checked
BalanceOutput_NoUnitCheck(resp) ==
    IF NotAnObject(resp)
    THEN Fail(ValidationError("Invalid response from wallet balance endpoint"))
    ELSE IF TypeOf(Get(resp, "balance")) # "number"
    THEN Fail(ValidationError("Balance must be a number"))
    ELSE Return(resp)

\* getWalletBalance after get
BalanceOutput(resp) ==
    IF NotAnObject(resp)
    THEN Fail(ValidationError("Invalid response from wallet balance endpoint"))
    ELSE IF TypeOf(Get(resp, "balance")) # "number"
    THEN Fail(ValidationError("Balance must be a number"))
    ELSE IF ~(Get(resp, "unit").t = "string" /\ Get(resp, "unit").v = SOL)
    THEN Fail(ValidationError("Unit must be SOL"))
    ELSE Return(resp)

\* mutant: the status of the response is not checked
PipelineOutput_NoStatusCheck(resp) ==
    IF NotAnObject(resp)
    THEN Fail(ValidationError("Invalid response from pipeline create endpoint"))
    ELSE IF ~Truthy(Get(resp, "pipelineId"))
            \/ TypeOf(Get(resp, "pipelineId")) # "string"
    THEN Fail(ValidationError("Pipeline ID is required in response"))
    ELSE Return(resp)

\* createPipeline after post
PipelineOutput(resp) ==
    IF NotAnObject(resp)
    THEN Fail(ValidationError("Invalid response from pipeline create endpoint"))
    ELSE IF ~Truthy(Get(resp, "pipelineId"))
            \/ TypeOf(Get(resp, "pipelineId")) # "string"
    THEN Fail(ValidationError("Pipeline ID is required in response"))
    ELSE IF ~Truthy(Get(resp, "status"))
            \/ TypeOf(Get(resp, "status")) # "string"
    THEN Fail(ValidationError("Pipeline status is required in response"))
    ELSE Return(resp)

\* mutant: an error that is no ValidationError is wrapped as one
OpCatch_Wrap(e) ==
    IF e.name = "ValidationError" THEN e
    ELSE ValidationError("Request failed: " \o e.message)

\* the catch block of verifySignature, getWalletBalance and createPipeline
OpCatch(e) == IF e.name = "ValidationError" THEN e ELSE e

\* what the operation makes of the data httpRequest returned
OpOutput(op, data) ==
    CASE op = "verifySignature" -> VerifyOutput(data)
      [] op = "getWalletBalance" -> BalanceOutput(data)
      [] op = "createPipeline" -> PipelineOutput(data)
      [] op = "httpRequest" -> Return(data)

\* what the operation makes of an error thrown inside its try block
OpError(op, e) == IF op = "httpRequest" THEN e ELSE OpCatch(e)

\* signMessage after the wallet resolved with signature, inside the try
\* block: the signature is checked, then walletAdapter.publicKey.toBase58()
\* is called, which throws when toBase58 is no function or itself throws
SignOutput(walletAdapter, message, signature) ==
    IF ~Truthy(signature) \/ Length(signature) = 0
    THEN Fail(ValidationError("Wallet returned invalid signature"))
    ELSE LET toBase58 == Get(Get(walletAdapter, "publicKey"), "toBase58")
         IN  IF toBase58.t # "function"
             THEN Fail(TypeError(
                      "walletAdapter.publicKey.toBase58 is not a function"))
             ELSE IF "throws" \in DOMAIN toBase58
             THEN Fail(toBase58.throws)
             ELSE Return(O(<<<<"address", toBase58.returns>>,
                             <<"message",
                               IF TypeOf(message) = "string" THEN message
                               ELSE S(TextDecode(message.v))>>,
                             <<"signature", signature>>>>))

\* httpRequest from the settlement of the body reader to its own settlement:
\* read is Return(data) or Fail(error)
HttpTail(resp, read) ==
    IF ~read.ok THEN Fail(HttpCatch(read.error))
    ELSE LET fin == HttpFinish(resp, read.value)
         IN  IF fin.ok THEN fin ELSE Fail(HttpCatch(fin.error))

\* the operation from the settlement of httpRequest to its own settlement
OpTail(op, res) ==
    IF ~res.ok THEN Fail(OpError(op, res.error))
    ELSE LET out == OpOutput(op, res.value)
         IN  IF out.ok THEN out ELSE Fail(OpError(op, out.error))

\* what awaiting response.json() or response.text() yields for a body
ReadBody(kind, body) ==
    IF kind = "json"
    THEN LET p == JSONParse(body)
         IN  IF p.ok THEN Return(p.value) ELSE Fail(p.error)
    ELSE Return(S(body))

(***************************************************************************)
(* The inputs the model draws from.                                        *)
(***************************************************************************)
RECURSIVE Slashes(_)
Slashes(k) == IF k = 0 THEN <<>> ELSE <<"/">> \o Slashes(k - 1)

\* base URLs: no scheme, http:// or https://, no host or host "a", and up to
\* MaxSlashes trailing slashes
BaseUrls ==
    { p \o h \o Slashes(k) :
        p \in {<<>>, HttpPrefix, HttpsPrefix}, h \in {<<>>, <<"a">>},
        k \in 0..MaxSlashes }

GoodUrl == HttpsPrefix \o <<"a">>
ExampleUrl ==
    HttpsPrefix
        \o <<"a", "p", "i", ".", "e", "x", "a", "m", "p", "l", "e", ".", "c",
              "o", "m", "/">>

\* the partial configurations handed to the PipelinkClient constructor
PartialConfigs ==
    { [baseUrl |-> b, network |-> "mainnet-beta", timeout |-> 5000,
       fetch |-> "mockFetch"] : b \in BaseUrls }
    \cup { [network |-> "mainnet-beta", fetch |-> "mockFetch"],
           [baseUrl |-> ExampleUrl, network |-> "mainnet-beta",
            fetch |-> "mockFetch"],
           [baseUrl |-> GoodUrl, fetch |-> "mockFetch"],
           [baseUrl |-> GoodUrl, network |-> "mainnet-beta", timeout |-> 0],
           [baseUrl |-> GoodUrl, network |-> "mainnet-beta", timeout |-> -1,
            fetch |-> "mockFetch"] }

\* the configurations handed to the exported operations directly
DirectConfigs ==
    { [baseUrl |-> GoodUrl, network |-> "mainnet-beta", timeout |-> 5000,
       fetch |-> "mockFetch"],
      [baseUrl |-> GoodUrl, network |-> "mainnet-beta", fetch |-> "mockFetch"],
      [baseUrl |-> <<>>, network |-> "mainnet-beta", timeout |-> 5000,
       fetch |-> "mockFetch"] }

AuthPayload(w, m, sig) ==
    O(<<<<"wallet", w>>, <<"message", m>>, <<"signature", sig>>>>)

Payloads ==
    { AuthPayload(w, m, sig) :
        w \in {S(<<>>), S(<<"w">>)}, m \in {S(<<>>), S(<<"H", "i">>)},
        sig \in {Undef, S(<<"s">>), A(<<>>), A(<<N(10), N(20)>>)} }
    \cup {Null}

AddrChars == {"w", "&"}

RECURSIVE StringsUpTo(_, _)
StringsUpTo(chars, n) ==
    IF n = 0 THEN {<<>>}
    ELSE LET shorter == StringsUpTo(chars, n - 1)
         IN  shorter \cup { Append(cs, c) : cs \in shorter, c \in chars }

Addresses ==
    {Null, N(10), S(<<"U+00E9">>), S(<<"U+D800">>)}
        \cup { S(cs) : cs \in StringsUpTo(AddrChars, MaxAddrLen) }

PipelineConfigs ==
    { Null, S(<<"x">>), O(<<>>),
      O(<<<<"name", S(<<>>)>>>>), O(<<<<"name", N(10)>>>>),
      O(<<<<"name", S(<<"n">>)>>>>),
      O(<<<<"name", S(<<"n">>)>>, <<"description", S(<<"d">>)>>,
          <<"anotherField", N(1230)>>>>) }

\* direct calls of httpRequest: the url and the options
HttpRequests ==
    { [url |-> GoodUrl \o <<"/", "t">>, options |-> o] :
        o \in { [fetch |-> "mockFetch", timeout |-> 100],
                [fetch |-> "mockFetch", timeout |-> 0],
                [method |-> "GET", headers |-> "X-Custom-Header" :> "value",
                 fetch |-> "mockFetch", timeout |-> 100] }
              \cup { [method |-> "POST",
                      headers |-> "Content-Type" :> "text/plain",
                      body |-> b, fetch |-> "mockFetch", timeout |-> 100] :
                       b \in {N(0), O(<<<<"wallet", S(<<"w">>)>>>>)} } }

\* a public key, whose toBase58() gives its text
PublicKey == O(<<<<"toBase58", Returns(S(<<"1", "1", "1">>))>>>>)

\* the wallet adapters: none, one without signMessage, one without publicKey,
\* a usable one, one whose signMessage is no function, one whose publicKey
\* is a string, and one whose toBase58 throws
WalletAdapters ==
    { Null,
      O(<<<<"publicKey", PublicKey>>>>),
      O(<<<<"signMessage", Fn>>>>),
      O(<<<<"signMessage", Fn>>, <<"publicKey", PublicKey>>>>),
      O(<<<<"signMessage", S(<<"x">>)>>, <<"publicKey", PublicKey>>>>),
      O(<<<<"signMessage", Fn>>, <<"publicKey", S(<<"1", "1", "1">>)>>>>),
      O(<<<<"signMessage", Fn>>,
          <<"publicKey", O(<<<<"toBase58", Throwing(PlainError("boom"))>>>>)>>>>) }

Messages ==
    { Null, S(<<>>), Bytes(<<>>), S(<<"H", "i">>), Bytes(<<72, 105>>),
      S(<<"U+00E9">>), Bytes(<<195, 169>>), S(<<"U+D800">>), Bytes(<<255>>),
      S(<<"U+FEFF", "H">>), Bytes(<<239, 187, 191, 72>>) }

Signatures == {Undef, Bytes(<<>>), Bytes(<<1, 2, 3>>)}

\* what the wallet may reject with: an Error, a value that is no Error, and
\* errors of the SDK's own classes
SignerFailures ==
    { PlainError("User rejected the request"),
      [name |-> "NotAnError", message |-> ""],
      ValidationError("wallet: bad message"),
      NetworkError("wallet: offline", PlainError("offline")),
      TimeoutError("wallet: timeout", 1000) }

StatusText(status) ==
    CASE status = 200 -> "OK"
      [] status = 404 -> "Not Found"

PlainType == <<"t", "e", "x", "t", "/", "p", "l", "a", "i", "n">>
Charset ==
    <<";", " ", "c", "h", "a", "r", "s", "e", "t", "=", "u", "t", "f", "-", "8">>

ContentTypes == {Null, S(JsonType), S(JsonType \o Charset), S(PlainType)}

\* response bodies: the text of every value of the universe, the empty body
\* and a text that is not JSON
Bodies == { JSONStringify(x) : x \in JSONValues } \cup {<<>>, <<"n", "o">>}

Responses ==
    { [status |-> st, statusText |-> StatusText(st), contentType |-> ct,
       body |-> b] : st \in {200, 404}, ct \in ContentTypes, b \in Bodies }

\* what the transport function may reject with
TransportFailures == {TypeError("Failed to fetch"), PlainError("aborted")}

\* what a body reader may reject with when the body stream fails
ReaderFailures == {TypeError("terminated")}

NoClient == [baseUrl |-> <<>>]
NoArg == [absent |-> TRUE]
NoCall == [op |-> "none"]
NoResponse == [status |-> 0]
NoTimer == [state |-> "none"]
NoTransport == [state |-> "none", reason |-> NoError]
NoReader == [kind |-> "none", state |-> "none", reason |-> NoError]
NoHttp == [state |-> "none", value |-> NoValue, error |-> NoError]
NoSigner == [state |-> "none", value |-> NoValue, reason |-> NoError]
NoObject == [same |-> FALSE, obj |-> NoArg]

\* the calls that may be in flight at once, and a call not yet made.  A
\* flight keeps the promise its own invocation of the transport function
\* returned (fetched) and the timer its own createTimeoutPromise started.
FlightIds == 1..MaxFlights
NoFlight ==
    [pc |-> "idle", call |-> NoCall,
     fetched |-> [state |-> "none", reason |-> NoError, response |-> NoResponse],
     timer |-> [state |-> "none", ms |-> 0],
     race |-> "none", response |-> NoResponse, reader |-> "none",
     settled |-> "pending", value |-> NoValue, error |-> NoError]

(***************************************************************************)
(* The state machine: at most one facade, and one call in flight.          *)
(***************************************************************************)
Init ==
    /\ client = NoClient
    /\ ctorError = NoError
    /\ ctorArg = NoArg
    /\ argNow = NoObject
    /\ returned = <<>>
    /\ signer = NoSigner
    /\ flights = [f \in FlightIds |-> NoFlight]
    /\ pc = "idle"
    /\ call = NoCall
    /\ fetchLog = <<>>
    /\ signLog = <<>>
    /\ transport = NoTransport
    /\ timer = NoTimer
    /\ race = "none"
    /\ response = NoResponse
    /\ reader = NoReader
    /\ http = NoHttp
    /\ settled = "pending"
    /\ value = NoValue
    /\ error = NoError

\* the promise returned to the caller settles with res
Settle(res) ==
    /\ pc' = "done"
    /\ IF res.ok
       THEN settled' = "fulfilled" /\ value' = res.value /\ error' = error
       ELSE settled' = "rejected" /\ error' = res.error /\ value' = value

\* the promise of httpRequest settles with res, and the operation awaiting it
\* runs to its end
SettleHttp(res) ==
    /\ http' = IF res.ok
               THEN [state |-> "fulfilled", value |-> res.value, error |-> NoError]
               ELSE [state |-> "rejected", value |-> NoValue, error |-> res.error]
    /\ Settle(OpTail(call.op, res))

\* the object passed to the constructor, once the constructor returned:
\* normalizeConfig builds its result as a new object literal, so the argument
\* is not the object the facade keeps
ArgumentAfter(config) == [same |-> FALSE, obj |-> config]

\* new PipelinkClient(config)
NewClient(config) ==
    /\ pc = "idle"
    /\ ctorArg = NoArg
    /\ ctorArg' = config
    /\ argNow' = ArgumentAfter(config)
    /\ LET n == normalizeConfig(config)
       IN  IF n.ok
           THEN client' = n.config /\ ctorError' = ctorError
           ELSE client' = client /\ ctorError' = n.error
    /\ UNCHANGED <<returned, flights, pc, call, fetchLog, signLog, signer, transport,
                   timer, race, response, reader, http, settled, value, error>>

\* the configurations an operation may be called with: the facade's own once
\* a facade exists, the direct ones before
Configs == IF client # NoClient THEN {client} ELSE DirectConfigs

\* an operation is called and runs to its first await: it throws, or
\* httpRequest builds the RequestInit, invokes the transport function and
\* starts the timeout race
Begin(op, input, config, head) ==
    /\ pc = "idle"
    /\ ctorError = NoError
    /\ call' = [op |-> op, input |-> input, config |-> config]
    /\ IF Throws(head)
       THEN /\ Settle(Fail(head.throw))
            /\ UNCHANGED <<fetchLog, transport, timer, http>>
       ELSE /\ fetchLog' = Append(fetchLog,
                               [fn |-> FetchFn(head.fetch), url |-> head.url,
                                init |-> RequestInit(head.method, head.headers,
                                                     head.body)])
            /\ transport' = [state |-> "pending", reason |-> NoError]
            /\ timer' = [state |-> "pending", ms |-> head.timeout]
            /\ http' = [state |-> "pending", value |-> NoValue, error |-> NoError]
            /\ pc' = "racing"
            /\ UNCHANGED <<settled, value, error>>
    /\ UNCHANGED <<facade, flights, signLog, signer, race, response, reader>>

CallVerifySignature ==
    \E payload \in Payloads, config \in Configs :
        Begin("verifySignature", payload, config,
              verifySignature(payload, config))

CallGetWalletBalance ==
    \E address \in Addresses, config \in Configs :
        Begin("getWalletBalance", address, config,
              getWalletBalance(address, config))

CallCreatePipeline ==
    \E pipelineConfig \in PipelineConfigs, config \in Configs :
        Begin("createPipeline", pipelineConfig, config,
              createPipeline(pipelineConfig, config))

CallHttpRequest ==
    /\ client = NoClient
    /\ \E req \in HttpRequests :
        Begin("httpRequest", req, req, httpRequest(req.url, req.options))

\* signMessage is called and runs to its await of the wallet
CallSignMessage ==
    \E walletAdapter \in WalletAdapters, message \in Messages :
        LET head == signMessage(walletAdapter, message)
        IN  /\ pc = "idle"
            /\ ctorError = NoError
            /\ call' = [op |-> "signMessage", input |-> message,
                        config |-> walletAdapter]
            /\ IF Throws(head)
               THEN /\ Settle(Fail(head.throw))
                    /\ UNCHANGED <<signLog, signer>>
               ELSE /\ signLog' = Append(signLog, head.sign)
                    /\ signer' = [NoSigner EXCEPT !.state = "pending"]
                    /\ pc' = "signing"
                    /\ UNCHANGED <<settled, value, error>>
            /\ UNCHANGED <<facade, flights, fetchLog, transport,
                           timer, race, response, reader, http>>

\* the wallet's promise resolves
SignerResolves ==
    /\ pc = "signing"
    /\ \E signature \in Signatures :
        LET out == SignOutput(call.config, call.input, signature)
        IN  /\ signer' = [state |-> "resolved", value |-> signature,
                          reason |-> NoError]
            /\ Settle(IF out.ok THEN out ELSE Fail(SignCatch(out.error)))
    /\ UNCHANGED <<facade, flights, call, fetchLog, signLog,
                   transport, timer, race, response, reader, http>>

\* the wallet's promise rejects
SignerRejects ==
    /\ pc = "signing"
    /\ \E e \in SignerFailures :
        /\ signer' = [state |-> "rejected", value |-> NoValue, reason |-> e]
        /\ Settle(Fail(SignCatch(e)))
    /\ UNCHANGED <<facade, flights, call, fetchLog, signLog,
                   transport, timer, race, response, reader, http>>

\* the transport's promise resolves with a Response.  If the race is still
\* open it wins it: httpRequest reads the content type and awaits the body
\* reader, or, with no reader to await, throws the HTTPError.  If the deadline
\* already won, nothing observes the settlement.
TransportResolves ==
    /\ transport.state = "pending"
    /\ transport' = [state |-> "resolved", reason |-> NoError]
    /\ \E resp \in Responses :
        IF pc = "racing"
        THEN /\ race' = "transport"
             /\ response' = resp
             /\ IF ReaderFor(resp) = "none"
                THEN /\ SettleHttp(HttpTail(resp, Return(Undef)))
                     /\ reader' = reader
                ELSE /\ reader' = [kind |-> ReaderFor(resp), state |-> "pending",
                                   reason |-> NoError]
                     /\ pc' = "reading"
                     /\ UNCHANGED <<http, settled, value, error>>
        ELSE UNCHANGED <<pc, race, response, reader, http, settled, value,
                         error>>
    /\ UNCHANGED <<facade, flights, call, fetchLog, signLog, signer, timer>>

\* the transport's promise rejects
TransportRejects ==
    /\ transport.state = "pending"
    /\ \E e \in TransportFailures :
        /\ transport' = [state |-> "rejected", reason |-> e]
        /\ IF pc = "racing"
           THEN /\ race' = "transport"
                /\ SettleHttp(Fail(HttpCatch(e)))
           ELSE UNCHANGED <<pc, race, http, settled, value, error>>
    /\ UNCHANGED <<facade, flights, call, fetchLog, signLog, signer, timer,
                   response, reader>>

\* mutant: the rejection of the timeout promise reaches the caller even after
\* the race was decided
DeadlineFires_Overrides ==
    /\ timer.state = "pending"
    /\ call.op # "signMessage"
    /\ timer' = [timer EXCEPT !.state = "fired"]
    /\ race' = "deadline"
    /\ SettleHttp(Fail(HttpCatch(TimeoutRejection(timer.ms))))
    /\ UNCHANGED <<facade, flights, call, fetchLog, signLog, signer,
                   transport, response, reader>>

\* the timer of createTimeoutPromise fires: the timeout promise rejects, which
\* decides the race if it is still open
DeadlineFires ==
    /\ timer.state = "pending"
    /\ timer' = [timer EXCEPT !.state = "fired"]
    /\ IF pc = "racing"
       THEN /\ race' = "deadline"
            /\ SettleHttp(Fail(HttpCatch(TimeoutRejection(timer.ms))))
       ELSE UNCHANGED <<pc, race, http, settled, value, error>>
    /\ UNCHANGED <<facade, flights, call, fetchLog, signLog, signer,
                   transport, response, reader>>

\* the body reader's promise resolves with the parsed body, or rejects with
\* the parser's SyntaxError
ReaderSettles ==
    /\ pc = "reading"
    /\ LET read == ReadBody(reader.kind, response.body)
       IN  /\ reader' = IF read.ok
                        THEN [reader EXCEPT !.state = "resolved"]
                        ELSE [reader EXCEPT !.state = "rejected",
                                            !.reason = read.error]
           /\ SettleHttp(HttpTail(response, read))
    /\ UNCHANGED <<facade, flights, call, fetchLog, signLog, signer,
                   transport, timer, race, response>>

\* the body reader's promise rejects because the body stream failed
ReaderFails ==
    /\ pc = "reading"
    /\ \E e \in ReaderFailures :
        /\ reader' = [reader EXCEPT !.state = "rejected", !.reason = e]
        /\ SettleHttp(HttpTail(response, Fail(e)))
    /\ UNCHANGED <<facade, flights, call, fetchLog, signLog, signer,
                   transport, timer, race, response>>

Next ==
    \/ \E config \in PartialConfigs : NewClient(config)
    \/ CallVerifySignature
    \/ CallGetWalletBalance
    \/ CallCreatePipeline
    \/ CallHttpRequest
    \/ CallSignMessage
    \/ SignerResolves
    \/ SignerRejects
    \/ TransportResolves
    \/ TransportRejects
    \/ DeadlineFires
    \/ ReaderSettles
    \/ ReaderFails

Spec == Init /\ [][Next]_vars

\* the executions in which a started timer eventually fires; the transport,
\* the wallet and the body readers may take for ever
SpecLive == Init /\ [][Next]_vars /\ WF_vars(DeadlineFires)

(***************************************************************************)
(* The facade under its caller: getConfig, writes to the objects the       *)
(* caller holds, and one call after another.                               *)
(***************************************************************************)
\* mutant: getConfig hands out the private config object itself
GetConfigResult_Alias(config) == [same |-> TRUE, obj |-> config]

\* getConfig(): { ...this.config }, a new object with the properties of the
\* private config; same tells whether an object is the private config itself
GetConfigResult(config) == [same |-> FALSE, obj |-> config]

\* the properties a caller writes on an object it holds, and what it writes
Mutations == {"baseUrl", "timeout"}
Written(k) == IF k = "baseUrl" THEN <<"x">> ELSE 1

\* obj[m] = Written(m)
Write(obj, m) ==
    [k \in DOMAIN obj \cup {m} |-> IF k = m THEN Written(m) ELSE obj[k]]

\* a write to the object behind handle h: it reaches the private config, and
\* with it every handle on the private config, exactly when h is one of them
WriteTo(h, m) ==
    IF h.same
    THEN /\ client' = Write(client, m)
         /\ returned' = [i \in DOMAIN returned |->
                            IF returned[i].same
                            THEN [returned[i] EXCEPT !.obj = Write(client, m)]
                            ELSE returned[i]]
         /\ argNow' = IF argNow.same
                      THEN [argNow EXCEPT !.obj = Write(client, m)] ELSE argNow
    ELSE UNCHANGED client

\* client.getConfig()
GetConfig ==
    /\ client # NoClient
    /\ Len(returned) < MaxCopies
    /\ returned' = Append(returned, GetConfigResult(client))
    /\ UNCHANGED <<client, ctorError, ctorArg, argNow, flights, pc, call, fetchLog,
                   signLog, signer, transport, timer, race, response, reader,
                   http, settled, value, error>>

\* the caller writes a property of an object getConfig returned
MutateReturned ==
    /\ \E i \in DOMAIN returned, m \in Mutations :
        /\ WriteTo(returned[i], m)
        /\ ~returned[i].same =>
              /\ returned' = [returned EXCEPT ![i].obj = Write(@, m)]
              /\ argNow' = argNow
    /\ UNCHANGED <<ctorError, ctorArg, flights, pc, call, fetchLog, signLog, signer,
                   transport, timer, race, response, reader, http, settled,
                   value, error>>

\* the caller writes a property of the object it passed to the constructor
MutateArgument ==
    /\ client # NoClient
    /\ \E m \in Mutations :
        /\ WriteTo(argNow, m)
        /\ ~argNow.same =>
              /\ argNow' = [argNow EXCEPT !.obj = Write(@, m)]
              /\ returned' = returned
    /\ UNCHANGED <<ctorError, ctorArg, flights, pc, call, fetchLog, signLog, signer,
                   transport, timer, race, response, reader, http, settled,
                   value, error>>

\* the caller, having seen the outcome of a call, is ready for the next one
NextCall ==
    /\ pc = "done"
    /\ pc' = "idle"
    /\ call' = NoCall
    /\ fetchLog' = <<>>
    /\ signLog' = <<>>
    /\ signer' = NoSigner
    /\ transport' = NoTransport
    /\ timer' = NoTimer
    /\ race' = "none"
    /\ response' = NoResponse
    /\ reader' = NoReader
    /\ http' = NoHttp
    /\ settled' = "pending"
    /\ value' = NoValue
    /\ error' = NoError
    /\ UNCHANGED <<facade, flights>>

NextFacade ==
    \/ \E config \in PartialConfigs : NewClient(config)
    \/ GetConfig
    \/ MutateReturned
    \/ MutateArgument
    \/ CallGetWalletBalance
    \/ DeadlineFires
    \/ NextCall

SpecFacade == Init /\ [][NextFacade]_vars

(***************************************************************************)
(* Several calls in flight at once against one configuration.  Promises    *)
(* and timers are told apart by the flight that created them; a settlement *)
(* is delivered to the flight whose race holds the promise.                *)
(***************************************************************************)
\* the configuration the flights share
SharedConfig ==
    [baseUrl |-> GoodUrl, network |-> "mainnet-beta", timeout |-> 5000,
     fetch |-> "mockFetch"]

\* the addresses the flights ask for
FlightAddresses == {S(<<>>), S(<<"w">>)}

\* the responses and the failure the transport answers the flights with
FlightResponses ==
    { [status |-> 200, statusText |-> "OK", contentType |-> S(JsonType),
       body |-> JSONStringify(Balance(N(105), S(SOL)))],
      [status |-> 200, statusText |-> "OK", contentType |-> S(JsonType),
       body |-> JSONStringify(Balance(S(<<"x">>), S(SOL)))],
      [status |-> 404, statusText |-> "Not Found", contentType |-> S(PlainType),
       body |-> <<"n", "o">>] }
FlightFailures == {TypeError("Failed to fetch")}

\* mutant: one timeout promise serves every race
RaceOfTimer_Shared(t) == 1

\* the flight whose race the callback of timer t settles: the callback rejects
\* the promise made by the createTimeoutPromise call that started the timer,
\* and withTimeout puts that promise in the Promise.race of the same call
RaceOfTimer(t) == t

\* the flight whose race the promise of the transport invocation of flight t
\* is in: httpRequest passes fetchFn(url, requestInit) to its own withTimeout
RaceOfFetch(t) == t

\* flight fl settles with the outcome res of httpRequest
FlightSettles(fl, res) ==
    LET out == OpTail(fl.call.op, res)
    IN  [fl EXCEPT !.pc = "done",
                   !.settled = IF out.ok THEN "fulfilled" ELSE "rejected",
                   !.value = IF out.ok THEN out.value ELSE @,
                   !.error = IF out.ok THEN @ ELSE out.error]

\* a response reaches the race of flight fl
OnResponse(fl, resp) ==
    IF fl.pc # "racing" THEN fl
    ELSE LET got == [fl EXCEPT !.race = "transport", !.response = resp]
         IN  IF ReaderFor(resp) = "none"
             THEN FlightSettles(got, HttpTail(resp, Return(Undef)))
             ELSE [got EXCEPT !.pc = "reading", !.reader = ReaderFor(resp)]

\* a rejection of the transport reaches the race of flight fl
OnFailure(fl, e) ==
    IF fl.pc # "racing" THEN fl
    ELSE FlightSettles([fl EXCEPT !.race = "transport"], Fail(HttpCatch(e)))

\* the rejection of a timeout promise reaches the race of flight fl
OnDeadline(fl, ms) ==
    IF fl.pc # "racing" THEN fl
    ELSE FlightSettles([fl EXCEPT !.race = "deadline"],
                       Fail(HttpCatch(TimeoutRejection(ms))))

\* flight f calls getWalletBalance and runs to its first await
FlightBegins(f) ==
    /\ flights[f].pc = "idle"
    /\ \E address \in FlightAddresses :
        LET head == getWalletBalance(address, SharedConfig)
            fl == [flights[f] EXCEPT
                      !.call = [op |-> "getWalletBalance", input |-> address,
                                config |-> SharedConfig]]
        IN  flights' = [flights EXCEPT ![f] =
                IF Throws(head)
                THEN [fl EXCEPT !.pc = "done", !.settled = "rejected",
                                !.error = head.throw]
                ELSE [fl EXCEPT !.pc = "racing",
                                !.fetched.state = "pending",
                                !.timer = [state |-> "pending",
                                           ms |-> head.timeout]]]
    /\ UNCHANGED <<facade, pc, call, fetchLog, signLog, signer, transport,
                   timer, race, response, reader, http, settled, value, error>>

\* the transport invocation of flight t resolves
FlightTransportResolves(t) ==
    /\ flights[t].fetched.state = "pending"
    /\ \E resp \in FlightResponses :
        LET now == [flights EXCEPT ![t].fetched.state = "resolved",
                                   ![t].fetched.response = resp]
        IN  flights' = [now EXCEPT ![RaceOfFetch(t)] = OnResponse(@, resp)]
    /\ UNCHANGED <<facade, pc, call, fetchLog, signLog, signer, transport,
                   timer, race, response, reader, http, settled, value, error>>

\* the transport invocation of flight t rejects
FlightTransportRejects(t) ==
    /\ flights[t].fetched.state = "pending"
    /\ \E e \in FlightFailures :
        LET now == [flights EXCEPT ![t].fetched.state = "rejected",
                                   ![t].fetched.reason = e]
        IN  flights' = [now EXCEPT ![RaceOfFetch(t)] = OnFailure(@, e)]
    /\ UNCHANGED <<facade, pc, call, fetchLog, signLog, signer, transport,
                   timer, race, response, reader, http, settled, value, error>>

\* the timer of flight t fires
FlightDeadlineFires(t) ==
    /\ flights[t].timer.state = "pending"
    /\ LET now == [flights EXCEPT ![t].timer.state = "fired"]
       IN  flights' = [now EXCEPT ![RaceOfTimer(t)] =
                          OnDeadline(@, flights[t].timer.ms)]
    /\ UNCHANGED <<facade, pc, call, fetchLog, signLog, signer, transport,
                   timer, race, response, reader, http, settled, value, error>>

\* the body reader of the response flight f holds settles
FlightReaderSettles(f) ==
    /\ flights[f].pc = "reading"
    /\ flights' = [flights EXCEPT ![f] =
          FlightSettles(@, HttpTail(@.response,
                                    ReadBody(@.reader, @.response.body)))]
    /\ UNCHANGED <<facade, pc, call, fetchLog, signLog, signer, transport,
                   timer, race, response, reader, http, settled, value, error>>

NextConcurrent ==
    \E f \in FlightIds :
        \/ FlightBegins(f)
        \/ FlightTransportResolves(f)
        \/ FlightTransportRejects(f)
        \/ FlightDeadlineFires(f)
        \/ FlightReaderSettles(f)

SpecConcurrent == Init /\ [][NextConcurrent]_vars

(***************************************************************************)
(* Properties.                                                             *)
(***************************************************************************)
HttpOps == {"verifySignature", "getWalletBalance", "createPipeline"}
PublicOps == HttpOps \cup {"signMessage"}

\* the four classified kinds: Validation, Network, Timeout, HttpStatus
Classified(e) ==
    e.name \in {"ValidationError", "NetworkError", "TimeoutError", "HTTPError"}

NonEmptyString(x) == x.t = "string" /\ Len(x.v) > 0

\* the input satisfies the operation's input contract
InputValid(op, input) ==
    CASE op = "verifySignature" ->
            /\ input.t = "object"
            /\ NonEmptyString(Get(input, "wallet"))
            /\ NonEmptyString(Get(input, "message"))
            /\ Get(input, "signature").t = "array"
            /\ Len(Get(input, "signature").v) > 0
      [] op = "getWalletBalance" -> NonEmptyString(input)
      [] op = "createPipeline" ->
            input.t = "object" /\ NonEmptyString(Get(input, "name"))

\* the input fails the operation's input contract: a payload that is no
\* object or has an empty wallet, message or signature, an address that is no
\* non-empty string, a pipeline config that is no object with a non-empty name
InputInvalid(op, input) == ~InputValid(op, input)

\* the value passed every output check of the operation
OutputChecked(op, x) ==
    CASE op = "verifySignature" -> x.t \in {"object", "array"}
      [] op = "getWalletBalance" ->
            /\ x.t = "object"
            /\ Get(x, "balance").t = "number"
            /\ Get(x, "unit").t = "string" /\ Text(Get(x, "unit").v) = "SOL"
      [] op = "createPipeline" ->
            /\ x.t = "object"
            /\ NonEmptyString(Get(x, "pipelineId"))
            /\ NonEmptyString(Get(x, "status"))
      [] op = "signMessage" ->
            /\ x.t = "object"
            /\ Get(x, "signature").t = "bytes"
            /\ Len(Get(x, "signature").v) > 0

\* C1: every call of a public operation that settles either resolves with a
\* value that passed all of the operation's output checks or rejects with
\* one of the four classified errors.
C1_ResolvesCheckedOrRejectsClassified ==
    (pc = "done" /\ call.op \in PublicOps) =>
        \/ settled = "fulfilled" /\ OutputChecked(call.op, value)
        \/ settled = "rejected" /\ Classified(error)

\* the timeout the call hands to httpRequest: the configured one, 30000 when
\* the configuration has none (or 0)
PassedTimeout ==
    IF call.op = "httpRequest" THEN call.input.options.timeout
    ELSE IF "timeout" \in DOMAIN call.config /\ call.config.timeout # 0
    THEN call.config.timeout
    ELSE 30000

\* C2: when the deadline elapses before the transport settles, the call
\* rejects with a TimeoutError whose timeout is the timeout of that call,
\* and stays so whatever the transport does later.
C2_TimeoutCarriesDeadline ==
    race = "deadline" =>
        /\ pc = "done"
        /\ settled = "rejected"
        /\ error.name = "TimeoutError"
        /\ error.timeout = PassedTimeout

C2_Witness ==
    /\ race = "deadline"
    /\ call.op = "getWalletBalance"
    /\ transport.state = "resolved"
    /\ error.name = "TimeoutError"
    /\ error.timeout = 5000

\* C3: a call of verifySignature, getWalletBalance or createPipeline whose
\* input fails the input validation rejects with a ValidationError and never
\* invokes the transport function.
C3_InvalidInputNoTransport ==
    (call.op \in HttpOps /\ InputInvalid(call.op, call.input)) =>
        /\ pc = "done"
        /\ settled = "rejected"
        /\ error.name = "ValidationError"
        /\ fetchLog = <<>>
        /\ transport.state = "none"

C3_Witness ==
    /\ call.op = "createPipeline"
    /\ call.input = O(<<<<"name", S(<<>>)>>>>)
    /\ pc = "done"
    /\ error.name = "ValidationError"
    /\ fetchLog = <<>>

\* the fixed method of an operation
ExpectedMethod(op) == IF op = "getWalletBalance" THEN "GET" ELSE "POST"

\* the percent-encoded text of an address over the model's characters
RECURSIVE EncodedText(_)
EncodedText(cs) ==
    IF cs = <<>> THEN ""
    ELSE (CASE cs[1] = "w" -> "w"
            [] cs[1] = "&" -> "%26"
            [] cs[1] = "U+00E9" -> "%C3%A9")
             \o EncodedText(Tail(cs))

\* the fixed URL of an operation
ExpectedUrl(op, input, config) ==
    Text(config.baseUrl)
        \o (CASE op = "verifySignature" -> "/api/auth/verify"
              [] op = "getWalletBalance" ->
                    "/api/wallet/balance?address=" \o EncodedText(input.v)
              [] op = "createPipeline" -> "/api/pipeline/create")

\* C4: the transport function is invoked at most once per call, whatever the
\* outcome; exactly once, with the operation's method and URL, when the input
\* and the configuration are valid; and not at all otherwise.
C4_SingleAttempt ==
    /\ Len(fetchLog) <= 1
    /\ call.op \in HttpOps =>
          IF InputValid(call.op, call.input) /\ call.config.baseUrl # <<>>
          THEN /\ Len(fetchLog) = 1
               /\ fetchLog[1].init.method = ExpectedMethod(call.op)
               /\ Text(fetchLog[1].url)
                      = ExpectedUrl(call.op, call.input, call.config)
          ELSE fetchLog = <<>>

C4_Witness ==
    /\ pc = "done"
    /\ call.op = "getWalletBalance"
    /\ call.input = S(<<"w", "&">>)
    /\ settled = "rejected"
    /\ error.name = "NetworkError"
    /\ timer.state = "fired"
    /\ Len(fetchLog) = 1
    /\ Text(fetchLog[1].url) = "https://a/api/wallet/balance?address=w%26"

\* C5: when httpRequest rejects with an HTTPError, a NetworkError or a
\* TimeoutError, the operation rejects with that very error; getWalletBalance
\* against a response of status 404 whose body was read rejects with an
\* HTTPError of status 404.
C5_TransportErrorsPropagate ==
    (pc = "done" /\ call.op \in HttpOps) =>
        /\ (http.state = "rejected"
              /\ http.error.name \in {"HTTPError", "NetworkError", "TimeoutError"})
            => (settled = "rejected" /\ error = http.error)
        /\ (call.op = "getWalletBalance" /\ response.status = 404
              /\ reader.state # "rejected")
            => (settled = "rejected" /\ error.name = "HTTPError"
                  /\ error.status = 404 /\ error.statusText = "Not Found")

C5_Witness ==
    /\ pc = "done"
    /\ call.op = "getWalletBalance"
    /\ response.status = 404
    /\ http.state = "rejected"
    /\ error.name = "HTTPError"
    /\ error.status = 404
    /\ error.data = O(<<<<"error", S(<<"N", "o">>)>>>>)

\* the declared content type indicates JSON
IndicatesJson(ct) == ct \in {S(JsonType), S(JsonType \o Charset)}

\* the transport delivered a response that is not a success before the deadline
NonSuccessDelivered ==
    /\ pc = "done"
    /\ race = "transport"
    /\ response # NoResponse
    /\ ~(response.status \in 200..299)

\* httpRequest rejected with an HTTPError of the response's status and status
\* text
RejectedHttpStatus ==
    /\ http.state = "rejected"
    /\ http.error.name = "HTTPError"
    /\ http.error.status = response.status
    /\ http.error.statusText = response.statusText

\* C6 as stated: every response that is not a success, whatever its body,
\* makes the request reject with an HTTPError carrying the status, the status
\* text and, as data, the parsed JSON for a JSON content type and nothing
\* otherwise.
C6_NonSuccessAlwaysHttpError ==
    NonSuccessDelivered =>
        /\ RejectedHttpStatus
        /\ IF IndicatesJson(response.contentType)
           THEN \E x \in JSONValues :
                    JSONStringify(x) = response.body /\ http.error.data = x
           ELSE http.error.data = Undef

\* C6 amended: a response that is not a success and whose body, when its
\* content type indicates JSON, was read and parsed as JSON makes the request
\* reject with an HTTPError carrying the status, the status text and, as
\* data, the parsed JSON for a JSON content type and nothing otherwise.
C6_NonSuccessHttpErrorIfBodyParses ==
    NonSuccessDelivered =>
        IF ~IndicatesJson(response.contentType)
        THEN RejectedHttpStatus /\ http.error.data = Undef
        ELSE reader.state = "resolved" =>
                /\ RejectedHttpStatus
                /\ \E x \in JSONValues :
                       JSONStringify(x) = response.body /\ http.error.data = x

C6_Witness ==
    /\ NonSuccessDelivered
    /\ call.op = "httpRequest"
    /\ response.contentType = S(JsonType \o Charset)
    /\ response.body = <<"n", "u", "l", "l">>
    /\ reader.state = "resolved"
    /\ http.error.name = "HTTPError"
    /\ http.error.status = 404
    /\ http.error.data = Null

\* C7: a request rejects with a NetworkError exactly when the invocation of
\* the transport function itself failed with a TypeError, the NetworkError
\* then carries that failure as its cause, and no failure that arises after a
\* response was obtained is classified as a NetworkError.
C7_NetworkIffTransportFailed ==
    (pc = "done" /\ http.state # "none") =>
        LET network == http.state = "rejected" /\ http.error.name = "NetworkError"
            failed == /\ race = "transport"
                      /\ transport.state = "rejected"
                      /\ transport.reason.name = "TypeError"
        IN  /\ network <=> failed
            /\ network => http.error.originalError = transport.reason
            /\ response # NoResponse => ~network

\* the body of the response is not the text of a JSON object or array
Malformed(body) ==
    ~\E x \in JSONValues :
        x.t \in {"object", "array"} /\ JSONStringify(x) = body

\* C8: when the transport returns a success response whose body, once
\* delivered, is malformed or absent (no valid JSON, JSON null, no object),
\* verifySignature, getWalletBalance and createPipeline reject with a
\* ValidationError.
C8_MalformedBodyIsValidation ==
    (/\ pc = "done"
     /\ call.op \in HttpOps
     /\ race = "transport"
     /\ response # NoResponse
     /\ response.status \in 200..299
     /\ reader.reason \notin ReaderFailures
     /\ Malformed(response.body)) =>
        settled = "rejected" /\ error.name = "ValidationError"

HasPrefix(s, p) == Len(s) >= Len(p) /\ \A i \in 1..Len(p) : s[i] = p[i]

EndpointMissing(config) ==
    "baseUrl" \notin DOMAIN config \/ Len(config.baseUrl) = 0

EndpointBadScheme(config) ==
    /\ ~EndpointMissing(config)
    /\ ~HasPrefix(config.baseUrl, HttpPrefix)
    /\ ~HasPrefix(config.baseUrl, HttpsPrefix)

\* C9: constructing a client fails with an Error and creates no client when
\* the baseUrl is missing or empty (reported as such, whatever the prefix
\* check would say) or does not start with http:// or https://.
C9_BadEndpointRejected ==
    ctorArg # NoArg =>
        /\ EndpointMissing(ctorArg) =>
              /\ client = NoClient
              /\ ctorError.name = "Error"
              /\ ctorError.message = "baseUrl is required"
        /\ EndpointBadScheme(ctorArg) =>
              /\ client = NoClient
              /\ ctorError.name = "Error"
              /\ ctorError.message
                     = "baseUrl must start with http:// or https://"

C9_Witness ==
    /\ ctorArg # NoArg
    /\ "baseUrl" \in DOMAIN ctorArg
    /\ ctorArg.baseUrl = <<"a", "/">>
    /\ client = NoClient
    /\ ctorError.message = "baseUrl must start with http:// or https://"
    /\ pc = "idle"

\* C10: the baseUrl of a constructed client is the accepted baseUrl without its
\* last character when that is "/", and the accepted baseUrl otherwise;
\* "https://api.example.com/" becomes "https://api.example.com".
C10_StripsOneTrailingSlash ==
    client # NoClient =>
        LET e == ctorArg.baseUrl
            n == client.baseUrl
        IN  /\ e[Len(e)] = "/" =>
                  /\ Len(n) = Len(e) - 1
                  /\ \A i \in 1..Len(n) : n[i] = e[i]
            /\ e[Len(e)] # "/" => n = e
            /\ Text(e) = "https://api.example.com/"
                  => Text(n) = "https://api.example.com"

C10_Witness ==
    /\ client # NoClient
    /\ Text(ctorArg.baseUrl) = "https://a//"
    /\ Text(client.baseUrl) = "https://a/"

\* C11: the baseUrl of every configuration normalizeConfig produced, which a
\* facade holds, is non-empty, begins with http:// or https:// and does not
\* end with "/".
C11_EndpointInvariant ==
    client # NoClient =>
        /\ Len(client.baseUrl) > 0
        /\ HasPrefix(client.baseUrl, HttpPrefix)
              \/ HasPrefix(client.baseUrl, HttpsPrefix)
        /\ client.baseUrl[Len(client.baseUrl)] # "/"

\* C12: a construction with a timeout of 0 or less fails, so that a facade's
\* timeout is positive and no call through a facade starts the timer of the
\* race with a delay of 0 or less.
C12_NonPositiveTimeoutRejected ==
    /\ (ctorArg # NoArg /\ "timeout" \in DOMAIN ctorArg /\ ctorArg.timeout <= 0)
          => (client = NoClient /\ ctorError # NoError)
    /\ client # NoClient => client.timeout > 0
    /\ (client # NoClient /\ timer.state # "none") => timer.ms > 0

\* the configuration normalized at construction
NormalizedAtConstruction == normalizeConfig(ctorArg).config

\* C13: whatever the caller writes to the objects getConfig returned and to
\* the object it passed to the constructor, and however many calls it makes,
\* the facade's configuration and the configuration its operations use are
\* the one normalized at construction; no object getConfig returned is the
\* private config, and each has, when it is returned, the content of the
\* one normalized at construction.
C13_ConfigFixedAtConstruction ==
    /\ [](client # NoClient =>
            /\ client = NormalizedAtConstruction
            /\ call.op \in HttpOps => call.config = NormalizedAtConstruction
            /\ ~argNow.same
            /\ \A i \in DOMAIN returned : ~returned[i].same)
    /\ [][Len(returned') > Len(returned) =>
            returned'[Len(returned')].obj = NormalizedAtConstruction']_vars

C13_Witness ==
    /\ client # NoClient
    /\ "timeout" \in DOMAIN ctorArg
    /\ Len(returned) = 2
    /\ returned[1].obj.baseUrl = <<"x">>
    /\ returned[2].obj = client
    /\ argNow.obj.timeout = 1
    /\ ctorArg.timeout = 5000
    /\ client.timeout = 5000
    /\ call.op = "getWalletBalance"
    /\ pc = "done"
    /\ error.name = "TimeoutError"
    /\ error.timeout = 5000

\* strings and their UTF-8 encodings: "Hi", e acute, and "H" after a byte
\* order mark
EncodedPairs ==
    { <<S(<<"H", "i">>), Bytes(<<72, 105>>)>>,
      <<S(<<"U+00E9">>), Bytes(<<195, 169>>)>>,
      <<S(<<"U+FEFF", "H">>), Bytes(<<239, 187, 191, 72>>)>> }

\* the message argument is the string m or its encoding b
MessageIs(m, b) ==
    IF call.input.t = "string" THEN call.input = m
    ELSE call.input.t = "bytes" /\ call.input = b

\* C14: when signMessage resolves, called with a non-empty string m or with
\* the UTF-8 encoding of m, the message of the result is m and the bytes the
\* wallet was given are the encoding of m.
C14_StringAndBytesAgree ==
    (pc = "done" /\ call.op = "signMessage" /\ settled = "fulfilled") =>
        \A pr \in EncodedPairs :
            MessageIs(pr[1], pr[2]) =>
                /\ Get(value, "message") = pr[1]
                /\ signLog = <<pr[2]>>

\* the message argument is a string or a byte sequence of the given emptiness
EmptyMessage == call.input.t \in {"string", "bytes"} /\ Len(call.input.v) = 0
NonEmptyMessage == call.input.t \in {"string", "bytes"} /\ Len(call.input.v) > 0

\* C15: signMessage called with an empty string or an empty byte sequence
\* rejects with a ValidationError, whatever the wallet adapter, and the
\* wallet's signMessage is not invoked.
C15_EmptyMessageRejected ==
    (call.op = "signMessage" /\ EmptyMessage) =>
        /\ pc = "done"
        /\ settled = "rejected"
        /\ error.name = "ValidationError"
        /\ signLog = <<>>
        /\ signer.state = "none"

C15_Witness ==
    /\ call.op = "signMessage"
    /\ call.input = Bytes(<<>>)
    /\ Truthy(Get(call.config, "signMessage"))
    /\ Truthy(Get(call.config, "publicKey"))
    /\ pc = "done"
    /\ error.message = "Message cannot be empty"

\* the wallet adapter is absent, has no signMessage or has no publicKey
AdapterUnusable ==
    \/ call.config.t = "null"
    \/ Get(call.config, "signMessage").t = "undefined"
    \/ Get(call.config, "publicKey").t = "undefined"

\* C16: a finished signMessage call with a non-empty message has rejected
\* with a ValidationError when the adapter is absent, has no signMessage or
\* has no publicKey (the wallet then not being invoked), when the wallet's
\* signMessage rejected, and when it resolved with no signature or an empty
\* one.
C16_SignerFailuresAreValidation ==
    (pc = "done" /\ call.op = "signMessage" /\ NonEmptyMessage) =>
        LET validation == settled = "rejected" /\ error.name = "ValidationError"
        IN  /\ AdapterUnusable =>
                  validation /\ signLog = <<>> /\ signer.state = "none"
            /\ signer.state = "rejected" => validation
            /\ (signer.state = "resolved"
                  /\ (signer.value.t = "undefined" \/ Len(signer.value.v) = 0))
                => validation

C16_Witness ==
    /\ pc = "done"
    /\ call.op = "signMessage"
    /\ call.input = S(<<"H", "i">>)
    /\ signer.state = "rejected"
    /\ signer.reason.name = "NetworkError"
    /\ error.name = "ValidationError"
    /\ error.message = "Failed to sign message: wallet: offline"

\* C17: every rejection of signMessage, whatever the message argument (null
\* included) and whatever the wallet rejects with, is a ValidationError.
C17_SignRejectsOnlyWithValidation ==
    (pc = "done" /\ call.op = "signMessage" /\ settled = "rejected") =>
        error.name = "ValidationError"

\* x is an object whose balance is a number and whose unit is "SOL"
IsBalance(x) ==
    /\ x.t = "object"
    /\ Get(x, "balance").t = "number"
    /\ Get(x, "unit").t = "string"
    /\ Text(Get(x, "unit").v) = "SOL"

\* the transport delivered a success response with this JSON body
JsonDelivered(text) ==
    /\ pc = "done"
    /\ race = "transport"
    /\ response.status = 200
    /\ IndicatesJson(response.contentType)
    /\ reader.state = "resolved"
    /\ Text(response.body) = text

\* C18: getWalletBalance resolves only with the data of a success response
\* that is an object with a numeric balance and the unit "SOL", and rejects
\* with a ValidationError for any other data; {balance: 10.5, unit: "SOL"}
\* resolves to balance 10.5, {balance: "x", unit: "SOL"} rejects.
C18_BalanceResponseValidated ==
    (pc = "done" /\ call.op = "getWalletBalance") =>
        /\ settled = "fulfilled" =>
              /\ http.state = "fulfilled"
              /\ IsBalance(http.value)
              /\ Get(value, "balance") = Get(http.value, "balance")
              /\ Get(value, "unit") = Get(http.value, "unit")
        /\ (http.state = "fulfilled" /\ IsBalance(http.value))
              => settled = "fulfilled"
        /\ (http.state = "fulfilled" /\ ~IsBalance(http.value))
              => (settled = "rejected" /\ error.name = "ValidationError")
        /\ JsonDelivered("{\"balance\":10.5,\"unit\":\"SOL\"}")
              => (settled = "fulfilled" /\ Get(value, "balance") = N(105))
        /\ JsonDelivered("{\"balance\":\"x\",\"unit\":\"SOL\"}")
              => (settled = "rejected" /\ error.name = "ValidationError")

C18_Witness ==
    /\ call.op = "getWalletBalance"
    /\ JsonDelivered("{\"balance\":10.5,\"unit\":\"SOL\"}")
    /\ settled = "fulfilled"
    /\ value = Balance(N(105), S(SOL))

\* C19: the balance of every result getWalletBalance resolves with is 0 or
\* more.
C19_BalanceNonNegative ==
    (pc = "done" /\ call.op = "getWalletBalance" /\ settled = "fulfilled") =>
        Get(value, "balance").v >= 0

\* x is an object whose pipelineId and status are non-empty strings
IsPipeline(x) ==
    /\ x.t = "object"
    /\ NonEmptyString(Get(x, "pipelineId"))
    /\ NonEmptyString(Get(x, "status"))

\* the text of the body of the request sent
SentBody == Text(fetchLog[1].init.body)

\* C20: createPipeline resolves only with the data of a success response that
\* is an object with a non-empty string pipelineId and a non-empty string
\* status, the data being returned whole, and rejects with a ValidationError
\* for any other data; the body of the request is the JSON text of the
\* caller's configuration with all its fields.
C20_PipelineResponseValidated ==
    (call.op = "createPipeline") =>
        /\ (pc = "done" /\ settled = "fulfilled") =>
              /\ http.state = "fulfilled"
              /\ IsPipeline(http.value)
              /\ value = http.value
        /\ (pc = "done" /\ http.state = "fulfilled" /\ IsPipeline(http.value))
              => settled = "fulfilled"
        /\ (pc = "done" /\ http.state = "fulfilled" /\ ~IsPipeline(http.value))
              => (settled = "rejected" /\ error.name = "ValidationError")
        /\ fetchLog # <<>> =>
              /\ "body" \in DOMAIN fetchLog[1].init
              /\ call.input = O(<<<<"name", S(<<"n">>)>>>>)
                    => SentBody = "{\"name\":\"n\"}"
              /\ Len(call.input.v) = 3
                    => SentBody = "{\"name\":\"n\",\"description\":\"d\","
                                      \o "\"anotherField\":123}"

C20_Witness ==
    /\ call.op = "createPipeline"
    /\ pc = "done"
    /\ settled = "fulfilled"
    /\ Len(call.input.v) = 3
    /\ Get(value, "extra") = N(10)
    /\ Get(value, "pipelineId") = S(<<"p", "1">>)

\* the outcome of a flight had it run alone, from what its own transport
\* invocation and its own timer did and from which of them its race saw first
AloneOutcome(fl) ==
    LET head == getWalletBalance(fl.call.input, fl.call.config)
        resp == fl.fetched.response
    IN  IF Throws(head) THEN Fail(head.throw)
        ELSE OpTail(fl.call.op,
                 IF fl.race = "deadline"
                 THEN Fail(HttpCatch(TimeoutRejection(head.timeout)))
                 ELSE IF fl.fetched.state = "rejected"
                 THEN Fail(HttpCatch(fl.fetched.reason))
                 ELSE HttpTail(resp,
                          IF ReaderFor(resp) = "none" THEN Return(Undef)
                          ELSE ReadBody(ReaderFor(resp), resp.body)))

\* C21: with several calls in flight against one configuration, a race is
\* decided only by the timer and the transport promise of its own call, the
\* response a call reads is the one its own transport invocation resolved
\* with, and the outcome of every finished call is the one it would have had
\* alone.
C21_FlightsDoNotInterfere ==
    \A f \in FlightIds :
        LET fl == flights[f]
        IN  /\ fl.race = "deadline" => fl.timer.state = "fired"
            /\ fl.race = "transport" =>
                  /\ fl.fetched.state \in {"resolved", "rejected"}
                  /\ fl.response = fl.fetched.response
            /\ fl.pc = "done" =>
                  LET alone == AloneOutcome(fl)
                  IN  IF alone.ok
                      THEN fl.settled = "fulfilled" /\ fl.value = alone.value
                      ELSE fl.settled = "rejected" /\ fl.error = alone.error

C21_Witness ==
    /\ flights[1].pc = "done"
    /\ flights[2].pc = "done"
    /\ flights[1].error.name = "TimeoutError"
    /\ flights[1].fetched.state = "resolved"
    /\ flights[2].settled = "fulfilled"
    /\ flights[2].timer.state = "pending"
    /\ flights[2].value = Balance(N(105), S(SOL))

\* C22: the side of the race that comes first fixes the outcome.  Once a call
\* is done, its outcome, the side that won, the response and the body reader
\* never change; when the deadline came first the call has rejected with a
\* TimeoutError and no response was taken or read, whatever the transport
\* does later; when the transport came first the outcome is no TimeoutError,
\* whether or not the timer fires later.
C22_RaceDecidedOnce ==
    /\ [][pc = "done" =>
            /\ pc' = "done"
            /\ settled' = settled /\ value' = value /\ error' = error
            /\ race' = race /\ response' = response /\ reader' = reader
            /\ http' = http]_vars
    /\ [](race = "deadline" =>
            /\ pc = "done"
            /\ settled = "rejected"
            /\ error.name = "TimeoutError"
            /\ response = NoResponse
            /\ reader = NoReader)
    /\ []((race = "transport" /\ pc = "done") => error.name # "TimeoutError")

C22_Witness ==
    /\ call.op = "createPipeline"
    /\ race = "deadline"
    /\ transport.state = "resolved"
    /\ response = NoResponse
    /\ settled = "rejected"
    /\ error.name = "TimeoutError"

\* C23: the RequestInit handed to the transport function has a body, the
\* JSON text of the body value, exactly when a body value was supplied, falsy
\* values included; with no body value it has no body field.
C23_BodyIffSupplied ==
    (call.op = "httpRequest" /\ fetchLog # <<>>) =>
        LET init == fetchLog[1].init
            options == call.input.options
            supplied == /\ "body" \in DOMAIN options
                        /\ options.body.t # "undefined"
        IN  /\ "body" \in DOMAIN init <=> supplied
            /\ ("body" \in DOMAIN init /\ supplied) =>
                  init.body = JSONStringify(options.body)

\* C24: in the executions in which the timer eventually fires, a call of
\* httpRequest or of an operation built on it that is awaiting the transport
\* or the body reader eventually settles.
C24_DeadlineBoundsRequest ==
    (pc \in {"racing", "reading"}) ~> (pc = "done")

\* C25: once a request whose transport settled before the deadline has
\* settled, the timer started for it is no longer pending.
C25_NoTimerLeftPending ==
    (pc = "done" /\ race = "transport") => timer.state # "pending"

====
